---- MODULE Spec2Model ----
(***************************************************************************)
(* Recollect: the indexing / caching engine of backend/search.py.          *)
(*                                                                         *)
(* The file system is a fixed directory skeleton (Dirs, Parent, DirName)   *)
(* whose directories hold document files and, possibly, a .recollect cache *)
(* directory.  get_index is one atomic action; its recursion, the cache    *)
(* writer and the cache loader are operators translated from the source.   *)
(* os.listdir order is fixed here to increasing directory index and to the *)
(* order of FileNames.                                                     *)
(***************************************************************************)
EXTENDS Integers, Sequences, FiniteSets, TLC

\* ------------------------------------------------------------------ bounds
NumDirs == 4
MaxFiles == 2
MaxThreshold == 1
MaxDocs == 2
MaxVecs == 2
MaxEnvSteps == 1
MaxSaves == 2

\* ------------------------------------------------------- strings as tuples
\* A string is a tuple of one-character strings.
Lower(ch) ==
    CASE ch = "X" -> "x"
      [] ch = "T" -> "t"
      [] OTHER -> ch

LowerStr(s) == [i \in 1..Len(s) |-> Lower(s[i])]

EndsWith(s, suf) ==
    /\ Len(s) >= Len(suf)
    /\ SubSeq(s, Len(s) - Len(suf) + 1, Len(s)) = suf

StartsWith(s, pre) ==
    /\ Len(s) >= Len(pre)
    /\ SubSeq(s, 1, Len(pre)) = pre

HasDot(s) == \E i \in 1..Len(s) : s[i] = "."

\* s.split('.')[-1]
LastDotPart(s) ==
    IF ~HasDot(s) THEN s
    ELSE LET k == CHOOSE i \in 1..Len(s) :
                      /\ s[i] = "."
                      /\ \A j \in (i+1)..Len(s) : s[j] # "."
         IN SubSeq(s, k + 1, Len(s))

\* --------------------------------------------------------- the file system
Dirs == 0..(NumDirs - 1)

\* directory d > 0 is a direct subdirectory of Parent(d)
Parent(d) == (d - 1) \div 2

SubDirsOf(d) == {s \in Dirs : s > 0 /\ Parent(s) = d}

RECURSIVE IsUnder(_, _)
\* d lies in the subtree of a (d = a included)
IsUnder(d, a) ==
    IF d = a THEN TRUE
    ELSE IF d = 0 THEN FALSE
    ELSE IsUnder(Parent(d), a)

HiddenDirs == {2}

DirName(d) == IF d \in HiddenDirs THEN <<".", "g">> ELSE <<"d">>

FileNames ==
    << <<"a", ".", "t", "x", "t">>,
       <<"b", ".", "p", "n", "g">>,
       <<"c", ".", "p", "d", "f">>,
       <<"n", ".", "m", "d">> >>

NameIds == 1..Len(FileNames)

\* two more names, for the trees the directory walker is run on: an
\* extension in upper case and a hidden file
MoreNames ==
    << <<"E", ".", "T", "X", "T">>,
       <<".", "h", ".", "t", "x", "t">> >>

AllNames == FileNames \o MoreNames

AllNameIds == 1..Len(AllNames)

\* a path is a directory and the index of a file name in it
Paths == [dir : Dirs, name : NameIds]

PathStr(p) == AllNames[p.name]

\* the allow_types default of get_index
AllowTypes ==
    { <<"p", "d", "f">>, <<"p", "n", "g">>, <<"j", "p", "g">>, <<"t", "x", "t">> }

\* ------------------------------------------------------ tuples and helpers
RECURSIVE SetToSeq(_)
\* the elements of a finite set of integers in increasing order
SetToSeq(S) ==
    IF S = {} THEN <<>>
    ELSE LET m == CHOOSE x \in S : \A y \in S : x <= y
         IN <<m>> \o SetToSeq(S \ {m})

Range(s) == {s[i] : i \in 1..Len(s)}

PathSet(docs) == {docs[i].path : i \in 1..Len(docs)}

NoDuplicates(s) == \A i, j \in 1..Len(s) : i # j => s[i] # s[j]

\* --------------------------------------------------------------- documents
\* utils.is_image_path
ImageExtensions ==
    { <<".", "p", "n", "g">>, <<".", "j", "p", "g">>, <<".", "j", "p", "e", "g">>,
      <<".", "b", "m", "p">>, <<".", "t", "i", "f", "f">>, <<".", "g", "i", "f">> }

is_image_path(s) == \E ext \in ImageExtensions : EndsWith(LowerStr(s), ext)

\* The number of text chunks ocr_to_chunks yields for the content of a file:
\* a text file holds one paragraph, run_ocr finds no text in an image.
NumChunks(p) == IF is_image_path(PathStr(p)) THEN 0 ELSE 1

\* The number of sub-images extract_images_from_document finds in an image.
NumImages(p) == 1

\* text_model.encode / image_model.encode: one fixed vector per chunk / image
TextVec(p, k) == <<1, p.dir, p.name, k>>
ImageVec(p, k) == <<2, p.dir, p.name, k>>

\* ocr.extract_chunks: the chunks of a file, or NotImplementedError
extract_chunks(p) ==
    IF EndsWith(PathStr(p), <<".", "t", "x", "t">>)
      THEN [raised |-> FALSE, chunks |-> [k \in 1..NumChunks(p) |-> k]]
    ELSE IF is_image_path(PathStr(p))
      THEN [raised |-> FALSE, chunks |-> [k \in 1..NumChunks(p) |-> k]]
    ELSE [raised |-> TRUE, chunks |-> <<>>]

\* compute_document_embeddings after extract_chunks returned ch
EmbedChunks(p, ch) ==
    IF ch.raised
      THEN [raised |-> TRUE, text |-> <<>>, image |-> <<>>]
      ELSE [raised |-> FALSE,
            text |-> [k \in 1..Len(ch.chunks) |-> TextVec(p, ch.chunks[k])],
            image |-> IF is_image_path(PathStr(p))
                        THEN [k \in 1..NumImages(p) |-> ImageVec(p, k)]
                        ELSE <<>>]

compute_document_embeddings(p) == EmbedChunks(p, extract_chunks(p))

\* an optional argument: None or a list
NoneArg == [isNone |-> TRUE, val |-> <<>>]
Some(v) == [isNone |-> FALSE, val |-> v]

\* Document.__init__, lines 27-29: e is what compute_document_embeddings gave
ComputedDocument(p, e) ==
    [raised |-> e.raised, computed |-> TRUE,
     doc |-> [path |-> p, text_embeddings |-> e.text, image_embeddings |-> e.image]]

\* Document.__init__ with the test `text_embeddings or image_embeddings`: an
\* empty image list computes too
Document_image_list_truthy(p, text_embeddings, image_embeddings) ==
    IF (~text_embeddings.isNone /\ text_embeddings.val # <<>>)
           \/ (~image_embeddings.isNone /\ image_embeddings.val # <<>>)
      THEN [raised |-> FALSE, computed |-> FALSE,
            doc |-> [path |-> p,
                     text_embeddings |-> text_embeddings.val,
                     image_embeddings |-> image_embeddings.val]]
      ELSE ComputedDocument(p, compute_document_embeddings(p))

\* Document.__init__: the embeddings handed in are kept when the text list is
\* non-empty or the image list is not None; otherwise they are computed.
\* computed tells whether compute_document_embeddings was called.
Document(p, text_embeddings, image_embeddings) ==
    IF (~text_embeddings.isNone /\ text_embeddings.val # <<>>) \/ ~image_embeddings.isNone
      THEN [raised |-> FALSE, computed |-> FALSE,
            doc |-> [path |-> p,
                     text_embeddings |-> text_embeddings.val,
                     image_embeddings |-> image_embeddings.val]]
      ELSE ComputedDocument(p, compute_document_embeddings(p))

\* ---------------------------------------------------------- the cache store
\* cache[d] is the .recollect directory of d: NoCache when it does not exist,
\* else the content of index.json (a manifest, or Unreadable when the file is
\* missing or is not valid JSON) and the bundle files it holds.
NoBundles == [n \in {} |-> <<>>]

NoCache == [exists |-> FALSE, readable |-> FALSE,
            documents |-> <<>>, children |-> <<>>, bundles |-> NoBundles]

\* os.makedirs(cache_path, exist_ok=True) on a directory that has no cache
EmptyCacheDir == [exists |-> TRUE, readable |-> FALSE,
                  documents |-> <<>>, children |-> <<>>, bundles |-> NoBundles]

\* a bundle file name: doc_{i}_tembeddings.npz / doc_{i}_iembeddings.npz
TextBundle(i) == <<i, "t">>
ImageBundle(i) == <<i, "i">>
NoFile == <<-1, "none">>

\* np.savez(file, *vectors): the archive maps arr_0 .. arr_{n-1} to the vectors
savez(vectors) == [k \in 0..(Len(vectors) - 1) |-> vectors[k + 1]]

\* [loaded[key] for key in loaded]: the arrays in archive order
LoadBundle(archive) ==
    [i \in 1..Cardinality(DOMAIN archive) |-> archive[i - 1]]

VARIABLES files, cache, readonly, last, nenv, input, app

vars == <<files, cache, readonly, last, nenv, input, app>>

\* The manifest record of the i-th document of a list that is being saved
\* (enumerate counts from 0, so its bundles are doc_{i-1}_*).
ManifestEntry_image_by_text(documents, i) ==
    [path |-> documents[i].path,
     text_embeddings_file |->
         IF Len(documents[i].text_embeddings) > 0 THEN TextBundle(i - 1) ELSE NoFile,
     image_embeddings_file |->
         IF Len(documents[i].text_embeddings) > 0 THEN ImageBundle(i - 1) ELSE NoFile]

ManifestEntry(documents, i) ==
    [path |-> documents[i].path,
     text_embeddings_file |->
         IF Len(documents[i].text_embeddings) > 0 THEN TextBundle(i - 1) ELSE NoFile,
     image_embeddings_file |->
         IF Len(documents[i].image_embeddings) > 0 THEN ImageBundle(i - 1) ELSE NoFile]

\* The bundle files _save_index_to_cache writes for a list of documents.
WrittenBundles(documents) ==
    {TextBundle(i - 1) : i \in {j \in 1..Len(documents) :
                              Len(documents[j].text_embeddings) > 0}}
    \cup
    {ImageBundle(i - 1) : i \in {j \in 1..Len(documents) :
                               Len(documents[j].image_embeddings) > 0}}

\* _save_index_to_cache(os.path.join(d, ".recollect"), documents, children) on
\* the cache store c.  Bundle files of an earlier save that are not
\* overwritten stay in the directory.  In a directory of readonly the cache
\* directory can be neither created nor written: the call raises.
_save_index_to_cache_no_children(c, d, documents, child_cache_paths) ==
    IF d \in readonly
      THEN [raised |-> TRUE, cache |-> c]
      ELSE
        LET old == IF c[d].exists THEN c[d] ELSE EmptyCacheDir
            new == WrittenBundles(documents)
            bundles ==
                [n \in (DOMAIN old.bundles) \cup new |->
                    IF n \in new
                      THEN IF n[2] = "t"
                             THEN savez(documents[n[1] + 1].text_embeddings)
                             ELSE savez(documents[n[1] + 1].image_embeddings)
                      ELSE old.bundles[n]]
            rec == [exists |-> TRUE, readable |-> TRUE,
                    documents |-> [i \in 1..Len(documents) |->
                                      ManifestEntry(documents, i)],
                    children |-> <<>>,
                    bundles |-> bundles]
        IN [raised |-> FALSE, cache |-> [c EXCEPT ![d] = rec]]

_save_index_to_cache(c, d, documents, child_cache_paths) ==
    IF d \in readonly
      THEN [raised |-> TRUE, cache |-> c]
      ELSE
        LET old == IF c[d].exists THEN c[d] ELSE EmptyCacheDir
            new == WrittenBundles(documents)
            bundles ==
                [n \in (DOMAIN old.bundles) \cup new |->
                    IF n \in new
                      THEN IF n[2] = "t"
                             THEN savez(documents[n[1] + 1].text_embeddings)
                             ELSE savez(documents[n[1] + 1].image_embeddings)
                      ELSE old.bundles[n]]
            rec == [exists |-> TRUE, readable |-> TRUE,
                    documents |-> [i \in 1..Len(documents) |->
                                      ManifestEntry(documents, i)],
                    children |-> child_cache_paths,
                    bundles |-> bundles]
        IN [raised |-> FALSE, cache |-> [c EXCEPT ![d] = rec]]

RECURSIVE LoadChildren(_, _)
RECURSIVE LoadFull(_, _)

NothingLoaded == [docs |-> <<>>, ncomputed |-> 0]

\* documents += ...
Loaded(h, t) == [docs |-> h.docs \o t.docs, ncomputed |-> h.ncomputed + t.ncomputed]

\* documents += _load_cached_index(child) for every child reference
LoadChildren_none(c, children) == NothingLoaded

LoadChildren(c, children) ==
    IF children = <<>> THEN NothingLoaded
    ELSE Loaded(LoadFull(c, Head(children)), LoadChildren(c, Tail(children)))

\* np.load of a bundle file named by a manifest entry fails: the file is missing
MissingBundle(dirRec, e) ==
    \/ e.text_embeddings_file # NoFile
       /\ e.text_embeddings_file \notin DOMAIN dirRec.bundles
    \/ e.image_embeddings_file # NoFile
       /\ e.image_embeddings_file \notin DOMAIN dirRec.bundles

\* lines 141-153: the Document made of one manifest entry of a cache directory
LoadEntry(dirRec, e) ==
    Document(e.path,
        Some(IF e.text_embeddings_file \in DOMAIN dirRec.bundles
               THEN LoadBundle(dirRec.bundles[e.text_embeddings_file])
               ELSE <<>>),
        Some(IF e.image_embeddings_file \in DOMAIN dirRec.bundles
               THEN LoadBundle(dirRec.bundles[e.image_embeddings_file])
               ELSE <<>>))

\* lines 136-160 once index.json is parsed: kids is what the child references
\* loaded to, made[i] what the constructor returned for entry i.  Any exception
\* makes this level return the empty list.
LoadLevel(dirRec, kids, made) ==
    IF \E i \in 1..Len(dirRec.documents) :
           MissingBundle(dirRec, dirRec.documents[i]) \/ made[i].raised
      THEN NothingLoaded
      ELSE [docs |-> kids.docs \o [i \in 1..Len(dirRec.documents) |-> made[i].doc],
            ncomputed |-> kids.ncomputed
                + Cardinality({i \in 1..Len(dirRec.documents) : made[i].computed})]

\* _load_cached_index(os.path.join(d, ".recollect")) together with the number
\* of embedding computations the Document constructor ran; a missing or
\* unparseable index.json raises inside the try block: the empty list
LoadFull(c, d) ==
    IF ~c[d].exists \/ ~c[d].readable
      THEN NothingLoaded
      ELSE LoadLevel(c[d],
                     LoadChildren(c, c[d].children),
                     [i \in 1..Len(c[d].documents) |-> LoadEntry(c[d], c[d].documents[i])])

_load_cached_index(c, d) == LoadFull(c, d).docs

\* ------------------------------------------------------------ IndexBuilder
\* subcache_threshold=None
NoThreshold == -1

Thresholds == {NoThreshold} \cup 0..MaxThreshold

\* the test of search.py line 199 on a file name
MatchesAllowTypes(name) ==
    /\ HasDot(name)
    /\ ~StartsWith(name, <<".">>)
    /\ LowerStr(LastDotPart(name)) \in AllowTypes

\* uncached.append(made) in front of what the later files give, unless the
\* constructor raised
AppendDocument(made, rest) ==
    IF made.raised
      THEN [docs |-> <<>>, raised |-> TRUE, ncomputed |-> 1]
      ELSE [docs |-> <<made.doc>> \o rest.docs,
            raised |-> rest.raised,
            ncomputed |-> 1 + rest.ncomputed]

RECURSIVE NewDocuments(_, _)
\* uncached.append(Document(os.path.join(dir_path, file))) for the matching
\* files of d, in order, stopping at the first constructor that raises
NewDocuments(d, names) ==
    IF names = <<>> THEN [docs |-> <<>>, raised |-> FALSE, ncomputed |-> 0]
    ELSE IF ~MatchesAllowTypes(AllNames[Head(names)])
      THEN NewDocuments(d, Tail(names))
    ELSE AppendDocument(Document([dir |-> d, name |-> Head(names)], NoneArg, NoneArg),
                        NewDocuments(d, Tail(names)))

RECURSIVE _create_index_recursive(_, _, _, _)
RECURSIVE VisitSubdirs(_, _, _, _)

\* lines 193-195: the results of a subdirectory and of the later ones, added up
Accumulate(h, t) ==
    [cached |-> h.cached \o t.cached,
     uncached |-> h.uncached \o t.uncached,
     children |-> h.children \o t.children,
     cache |-> t.cache,
     raised |-> t.raised,
     ncomputed |-> h.ncomputed + t.ncomputed]

\* the loop goes on after a subdirectory returned h, unless the call raised
VisitRest(h, rest, use_cache, subcache_threshold) ==
    IF h.raised THEN h
    ELSE Accumulate(h, VisitSubdirs(h.cache, rest, use_cache, subcache_threshold))

\* the loop of lines 188-195 over the subdirectories subs, starting from the
\* cache store c
VisitSubdirs(c, subs, use_cache, subcache_threshold) ==
    IF subs = <<>>
      THEN [cached |-> <<>>, uncached |-> <<>>, children |-> <<>>,
            cache |-> c, raised |-> FALSE, ncomputed |-> 0]
    ELSE IF StartsWith(DirName(Head(subs)), <<".">>)
      THEN VisitSubdirs(c, Tail(subs), use_cache, subcache_threshold)
    ELSE VisitRest(_create_index_recursive(c, Head(subs), use_cache, subcache_threshold),
                   Tail(subs), use_cache, subcache_threshold)

\* Lines 203-210 at directory d, w being what _save_index_to_cache returned:
\* the documents become cached and d's cache is the only child reference left.
SubcacheWritten_keeps_uncached(sub, own, d, w) ==
    [cached |-> sub.cached \o sub.uncached \o own.docs,
     uncached |-> sub.uncached \o own.docs,
     children |-> <<d>>,
     cache |-> w.cache,
     raised |-> w.raised,
     ncomputed |-> sub.ncomputed + own.ncomputed]

SubcacheWritten(sub, own, d, w) ==
    [cached |-> sub.cached \o sub.uncached \o own.docs,
     uncached |-> <<>>,
     children |-> <<d>>,
     cache |-> w.cache,
     raised |-> w.raised,
     ncomputed |-> sub.ncomputed + own.ncomputed]

\* Lines 202-213 at directory d: sub is what the subdirectories handed up, own
\* the documents made of the files of d.  Above the threshold a manifest of
\* the uncached documents and the child references is written at d.
\* the comparison of line 203 taken as "at least the threshold"
WriteSubcache_at_threshold(sub, own, d, subcache_threshold) ==
    IF subcache_threshold # NoThreshold
       /\ Len(sub.uncached) + Len(own.docs) >= subcache_threshold
      THEN SubcacheWritten(sub, own, d,
               _save_index_to_cache(sub.cache, d, sub.uncached \o own.docs, sub.children))
      ELSE [cached |-> sub.cached,
            uncached |-> sub.uncached \o own.docs,
            children |-> sub.children,
            cache |-> sub.cache,
            raised |-> FALSE,
            ncomputed |-> sub.ncomputed + own.ncomputed]

WriteSubcache_own_files_only(sub, own, d, subcache_threshold) ==
    IF subcache_threshold # NoThreshold
       /\ Len(sub.uncached) + Len(own.docs) > subcache_threshold
      THEN SubcacheWritten(sub, own, d,
               _save_index_to_cache(sub.cache, d, own.docs, sub.children))
      ELSE [cached |-> sub.cached,
            uncached |-> sub.uncached \o own.docs,
            children |-> sub.children,
            cache |-> sub.cache,
            raised |-> FALSE,
            ncomputed |-> sub.ncomputed + own.ncomputed]

WriteSubcache(sub, own, d, subcache_threshold) ==
    IF subcache_threshold # NoThreshold
       /\ Len(sub.uncached) + Len(own.docs) > subcache_threshold
      THEN SubcacheWritten(sub, own, d,
               _save_index_to_cache(sub.cache, d, sub.uncached \o own.docs, sub.children))
      ELSE [cached |-> sub.cached,
            uncached |-> sub.uncached \o own.docs,
            children |-> sub.children,
            cache |-> sub.cache,
            raised |-> FALSE,
            ncomputed |-> sub.ncomputed + own.ncomputed]

\* lines 197-213: the files of d once they are made into documents (own)
IndexFiles(sub, own, d, subcache_threshold) ==
    IF own.raised
      THEN [sub EXCEPT !.raised = TRUE, !.ncomputed = sub.ncomputed + own.ncomputed]
      ELSE WriteSubcache(sub, own, d, subcache_threshold)

\* lines 197-213 once the subdirectories returned sub
IndexDirectory(sub, d, subcache_threshold) ==
    IF sub.raised THEN sub
    ELSE IndexFiles(sub, NewDocuments(d, SetToSeq(files[d])), d, subcache_threshold)

\* line 182: the subtree is resolved from the cache of d, which loaded to l
ResolvedFromCache(c, d, l) ==
    [cached |-> l.docs, uncached |-> <<>>, children |-> <<d>>,
     cache |-> c, raised |-> FALSE, ncomputed |-> l.ncomputed]

\* line 181 without the use_cache test: an existing cache is always used
_create_index_recursive_uses_any_cache(c, d, use_cache, subcache_threshold) ==
    IF c[d].exists
      THEN ResolvedFromCache(c, d, LoadFull(c, d))
      ELSE IndexDirectory(
               VisitSubdirs(c, SetToSeq(SubDirsOf(d)), use_cache, subcache_threshold),
               d, subcache_threshold)

\* _create_index_recursive(d, AllowTypes, use_cache, subcache_threshold) on the
\* cache store c: (cached, uncached, children_cache_paths), the cache store it
\* leaves behind, whether it raised, and the embedding computations it ran
_create_index_recursive(c, d, use_cache, subcache_threshold) ==
    IF use_cache /\ c[d].exists
      THEN ResolvedFromCache(c, d, LoadFull(c, d))
      ELSE IndexDirectory(
               VisitSubdirs(c, SetToSeq(SubDirsOf(d)), use_cache, subcache_threshold),
               d, subcache_threshold)

\* line 238-239: the root manifest is written, w being what the writer returned
RootSaved(r, w) ==
    [docs |-> IF w.raised THEN <<>> ELSE r.cached \o r.uncached,
     raised |-> w.raised, cache |-> w.cache, ncomputed |-> r.ncomputed]

\* lines 237-241 with the root manifest written whenever use_cache is set
FinishIndex_saves_without_uncached(d, use_cache, r) ==
    IF r.raised
      THEN [docs |-> <<>>, raised |-> TRUE, cache |-> r.cache, ncomputed |-> r.ncomputed]
    ELSE IF use_cache
      THEN RootSaved(r, _save_index_to_cache(r.cache, d, r.uncached, r.children))
    ELSE [docs |-> r.cached \o r.uncached, raised |-> FALSE, cache |-> r.cache,
          ncomputed |-> r.ncomputed]

\* lines 237-241 once the recursion returned r
FinishIndex(d, use_cache, r) ==
    IF r.raised
      THEN [docs |-> <<>>, raised |-> TRUE, cache |-> r.cache, ncomputed |-> r.ncomputed]
    ELSE IF use_cache /\ Len(r.uncached) > 0
      THEN RootSaved(r, _save_index_to_cache(r.cache, d, r.uncached, r.children))
    ELSE [docs |-> r.cached \o r.uncached, raised |-> FALSE, cache |-> r.cache,
          ncomputed |-> r.ncomputed]

\* lines 234-241: the index is built by the recursion
BuildIndex(c, d, use_cache, subcache_threshold) ==
    FinishIndex(d, use_cache,
                _create_index_recursive(c, d, use_cache, subcache_threshold))

\* lines 228-232: the root cache loaded to hit; it is returned when it is not
\* empty
UseRootCache_drops_vanished(c, d, use_cache, subcache_threshold, hit) ==
    IF Len(hit.docs) > 0
      THEN [docs |-> SelectSeq(hit.docs,
                               LAMBDA doc : doc.path.name \in files[doc.path.dir]),
            raised |-> FALSE, cache |-> c, ncomputed |-> hit.ncomputed]
      ELSE BuildIndex(c, d, use_cache, subcache_threshold)

UseRootCache(c, d, use_cache, subcache_threshold, hit) ==
    IF Len(hit.docs) > 0
      THEN [docs |-> hit.docs, raised |-> FALSE, cache |-> c,
            ncomputed |-> hit.ncomputed]
      ELSE BuildIndex(c, d, use_cache, subcache_threshold)

\* get_index(d, AllowTypes, use_cache, subcache_threshold) on the cache store
\* c: the documents returned (none when the call raised), the cache store
\* left behind and the number of embedding computations
get_index(c, d, use_cache, subcache_threshold) ==
    IF use_cache /\ c[d].exists
      THEN UseRootCache(c, d, use_cache, subcache_threshold, LoadFull(c, d))
      ELSE BuildIndex(c, d, use_cache, subcache_threshold)

\* the hosting application before it serves a request: the global documents
\* is the empty list, no thread runs, no search request is being served
NoApp == [documents |-> <<>>, threads |-> <<>>, requests |-> <<>>]

\* ------------------------------------------------------------- the machine
FilePlaces == Dirs \X NameIds

NumFiles(f) == Cardinality({pl \in FilePlaces : pl[2] \in f[pl[1]]})

\* the directories get_index is called on: the top of the tree and directory 1
Roots == {d \in Dirs : d <= 1}

NoCall == [op |-> "none", root |-> 0, use_cache |-> FALSE,
           docs |-> <<>>, raised |-> FALSE, ncomputed |-> 0,
           saved |-> <<>>, refdocs |-> <<>>,
           query |-> <<>>, top_k |-> 0, ranked |-> <<>>]

\* A directory tree of at most MaxFiles files, no cache directory anywhere,
\* every directory writable.
Init ==
    /\ files \in {f \in [Dirs -> SUBSET NameIds] : NumFiles(f) <= MaxFiles}
    /\ cache = [d \in Dirs |-> NoCache]
    /\ readonly = {}
    /\ last = NoCall
    /\ nenv = 0
    /\ app = NoApp
    /\ input = <<>>

\* one call of get_index
\* the state after a call of get_index that returned r
Returned(d, use_cache, r) ==
    /\ cache' = r.cache
    /\ last' = [NoCall EXCEPT !.op = "get_index", !.root = d,
                               !.use_cache = use_cache, !.docs = r.docs,
                               !.raised = r.raised, !.ncomputed = r.ncomputed]
    /\ UNCHANGED <<files, readonly, nenv, input, app>>

GetIndex(d, use_cache, subcache_threshold) ==
    Returned(d, use_cache, get_index(cache, d, use_cache, subcache_threshold))

NextBuild ==
    \E d \in Roots, use_cache \in BOOLEAN, t \in Thresholds : GetIndex(d, use_cache, t)

SpecBuild == Init /\ [][NextBuild]_vars

\* The environment acts at most MaxEnvSteps times (nenv counts its steps).
\* A file appears in a directory (the tree never holds more than MaxFiles).
AddFile(d, n) ==
    /\ n \notin files[d]
    /\ NumFiles(files) < MaxFiles
    /\ files' = [files EXCEPT ![d] = @ \cup {n}]
    /\ last' = [NoCall EXCEPT !.op = "add"]
    /\ nenv < MaxEnvSteps
    /\ nenv' = nenv + 1
    /\ UNCHANGED <<cache, readonly, input, app>>

\* A file is removed from a directory.
RemoveFile(d, n) ==
    /\ n \in files[d]
    /\ files' = [files EXCEPT ![d] = @ \ {n}]
    /\ last' = [NoCall EXCEPT !.op = "remove"]
    /\ nenv < MaxEnvSteps
    /\ nenv' = nenv + 1
    /\ UNCHANGED <<cache, readonly, input, app>>

\* The index.json of a cache directory is damaged (a partial write, a
\* truncated file): json.load raises on it from now on.
CorruptManifest(d) ==
    /\ cache[d].exists
    /\ cache[d].readable
    /\ cache' = [cache EXCEPT ![d].readable = FALSE]
    /\ last' = [NoCall EXCEPT !.op = "corrupt"]
    /\ nenv < MaxEnvSteps
    /\ nenv' = nenv + 1
    /\ UNCHANGED <<files, readonly, input, app>>

\* The user deletes a .recollect directory.
DeleteCache(d) ==
    /\ cache[d].exists
    /\ cache' = [cache EXCEPT ![d] = NoCache]
    /\ last' = [NoCall EXCEPT !.op = "delete"]
    /\ nenv < MaxEnvSteps
    /\ nenv' = nenv + 1
    /\ UNCHANGED <<files, readonly, input, app>>

NextCorrupt ==
    \/ \E d \in Roots, use_cache \in BOOLEAN, t \in Thresholds : GetIndex(d, use_cache, t)
    \/ \E d \in Dirs : CorruptManifest(d)

\* builds on a fixed tree whose manifests may get damaged
SpecCorrupt == Init /\ [][NextCorrupt]_vars

Next ==
    \/ \E d \in Roots, use_cache \in BOOLEAN, t \in Thresholds : GetIndex(d, use_cache, t)
    \/ \E d \in Dirs, n \in NameIds : AddFile(d, n)
    \/ \E d \in Dirs, n \in NameIds : RemoveFile(d, n)
    \/ \E d \in Dirs : DeleteCache(d)

\* A tree with room for one more file, no cache directory anywhere.
InitChanging ==
    /\ files \in {f \in [Dirs -> SUBSET NameIds] : NumFiles(f) < MaxFiles}
    /\ cache = [d \in Dirs |-> NoCache]
    /\ readonly = {}
    /\ last = NoCall
    /\ nenv = 0
    /\ app = NoApp
    /\ input = <<>>

\* builds on a tree whose files change and whose caches may be deleted
Spec == InitChanging /\ [][Next]_vars

\* A tree in which some directories are not writable.
InitPerm ==
    /\ files \in {f \in [Dirs -> SUBSET NameIds] : NumFiles(f) <= MaxFiles}
    /\ cache = [d \in Dirs |-> NoCache]
    /\ readonly \in {{}} \cup {{d} : d \in Roots}
    /\ last = NoCall
    /\ nenv = 0
    /\ app = NoApp
    /\ input = <<>>

\* builds on a fixed tree with directories that cannot be written
SpecPerm == InitPerm /\ [][NextBuild]_vars

\* ------------------------------------------------- the cache round trip
\* the vector lists of a modality: 0 .. MaxVecs distinct vectors
VecLists(modality) == {[k \in 1..n |-> <<modality, k>>] : n \in 0..MaxVecs}

\* the document lists handed to the cache writer: up to MaxDocs documents,
\* the i-th one at path name i, with any vector lists
DocLists ==
    UNION {[1..n -> [text_embeddings : VecLists(1), image_embeddings : VecLists(2)]]
              : n \in 0..MaxDocs}

InputDocs(shapes) ==
    [i \in 1..Len(shapes) |->
        [path |-> [dir |-> 0, name |-> i],
         text_embeddings |-> shapes[i].text_embeddings,
         image_embeddings |-> shapes[i].image_embeddings]]

InitRoundTrip ==
    /\ files = [d \in Dirs |-> {}]
    /\ cache = [d \in Dirs |-> NoCache]
    /\ readonly = {}
    /\ last = NoCall
    /\ nenv = 0
    /\ app = NoApp
    /\ input \in {InputDocs(sh) : sh \in DocLists}

\* the readable caches of proper descendants of d, in any selection
RefLists(d) ==
    {SetToSeq(R) : R \in SUBSET {r \in Dirs : /\ r # d
                                              /\ IsUnder(r, d)
                                              /\ cache[r].exists
                                              /\ cache[r].readable}}

\* _save_index_to_cache(d, docs, refs) followed by _load_cached_index(d), for
\* docs a slice of the input list; nenv counts the saves
\* the state after the save returned w
Saved(d, docs, refs, w) ==
    /\ nenv < MaxSaves
    /\ nenv' = nenv + 1
    /\ cache' = w.cache
    /\ last' = [NoCall EXCEPT !.op = "roundtrip", !.root = d,
                               !.docs = _load_cached_index(w.cache, d),
                               !.raised = w.raised,
                               !.saved = docs,
                               !.refdocs = LoadChildren(cache, refs).docs]
    /\ UNCHANGED <<files, readonly, input, app>>

SaveAndLoad(d, lo, hi, refs) ==
    Saved(d, SubSeq(input, lo, hi), refs,
          _save_index_to_cache(cache, d, SubSeq(input, lo, hi), refs))

NextRoundTrip ==
    \E d \in Roots, lo \in 1..(Len(input) + 1), hi \in 0..Len(input) :
        \E refs \in RefLists(d) :
            /\ lo <= hi + 1
            /\ SaveAndLoad(d, lo, hi, refs)

SpecRoundTrip == InitRoundTrip /\ [][NextRoundTrip]_vars

\* ------------------------------------------------------------ the search
\* Embedding vectors are pairs of integers.  A similarity is the real number
\* num / sqrt(den) with den > 0, or NaN: what numpy yields for 0.0 / 0.0.
ZeroVec == <<0, 0>>

NaN == [nan |-> TRUE, num |-> 0, den |-> 1]

Dot(a, b) == a[1] * b[1] + a[2] * b[2]

\* np.linalg.norm(a) squared
Norm2(a) == Dot(a, a)

\* compute_similarity(embedding1, embedding2): the dot product divided by the
\* product of the norms; the division of 0.0 by 0.0 yields NaN
compute_similarity(embedding1, embedding2) ==
    IF Norm2(embedding1) * Norm2(embedding2) = 0
      THEN NaN
      ELSE [nan |-> FALSE, num |-> Dot(embedding1, embedding2),
            den |-> Norm2(embedding1) * Norm2(embedding2)]

\* image_weight = 1.5 = ImageWeightNum / ImageWeightDen
ImageWeightNum == 3
ImageWeightDen == 2

\* image_weight * similarity
Weighted(x) ==
    [nan |-> x.nan, num |-> ImageWeightNum * x.num,
     den |-> ImageWeightDen * ImageWeightDen * x.den]

\* x * |x| * den of a similarity: it orders similarities of equal den as the
\* similarities themselves are ordered
SignedSquare(x) == IF x.num < 0 THEN 0 - x.num * x.num ELSE x.num * x.num

\* x < y on floats: false as soon as one of them is NaN
Less(x, y) ==
    /\ ~x.nan
    /\ ~y.nan
    /\ SignedSquare(x) * y.den < SignedSquare(y) * x.den

\* x > y on floats
Greater(x, y) == Less(y, x)

\* x == y on floats
SameValue(x, y) ==
    /\ ~x.nan
    /\ ~y.nan
    /\ SignedSquare(x) * y.den = SignedSquare(y) * x.den

RECURSIVE MaxFrom(_, _)
\* max(values) of Python, best being the maximum so far: an item replaces it
\* only when it compares greater
MaxFrom(best, values) ==
    IF values = <<>> THEN best
    ELSE MaxFrom(IF Greater(Head(values), best) THEN Head(values) ELSE best,
                 Tail(values))

\* the first similarity of a document instead of the greatest
max_first(values) == Head(values)

max(values) == MaxFrom(Head(values), Tail(values))

\* lines 77-78: the similarities of a document to the query embeddings
doc_similarities(query_embedding, query_img_embedding, doc) ==
    [i \in 1..Len(doc.text_embeddings) |->
        compute_similarity(query_embedding, doc.text_embeddings[i])]
    \o
    [i \in 1..Len(doc.image_embeddings) |->
        Weighted(compute_similarity(query_img_embedding, doc.image_embeddings[i]))]

RECURSIVE Similarities(_, _, _, _)
\* lines 73-79: the (similarity, idx) pairs of the documents from position i
\* on (idx counts from 1 here); a document without any embedding is skipped
Similarities(query_embedding, query_img_embedding, documents, i) ==
    IF i > Len(documents) THEN <<>>
    ELSE IF Len(documents[i].text_embeddings) = 0
            /\ Len(documents[i].image_embeddings) = 0
      THEN Similarities(query_embedding, query_img_embedding, documents, i + 1)
    ELSE <<[score |-> max(doc_similarities(query_embedding, query_img_embedding,
                                           documents[i])),
            idx |-> i]>>
         \o Similarities(query_embedding, query_img_embedding, documents, i + 1)

\* a (similarity, idx) pair sorts before another one when its key is less
KeyLess(a, b) == Less(a.score, b.score)

Reverse(s) == [i \in 1..Len(s) |-> s[Len(s) + 1 - i]]

RECURSIVE RunEnd(_, _, _)
\* the end of the run that starts the list, s[1..k] being part of it: strictly
\* descending when descending, else non-descending
RunEnd(s, k, descending) ==
    IF k < Len(s) /\ (KeyLess(s[k + 1], s[k]) = descending)
      THEN RunEnd(s, k + 1, descending)
      ELSE k

RECURSIVE Place(_, _, _, _)
\* binary search for the place of pivot in the sorted s[l..r-1]: after the
\* items that are not greater than it
Place(s, pivot, l, r) ==
    IF l >= r THEN l
    ELSE IF KeyLess(pivot, s[l + (r - l) \div 2])
      THEN Place(s, pivot, l, l + (r - l) \div 2)
      ELSE Place(s, pivot, l + (r - l) \div 2 + 1, r)

\* s[start] moved to position l <= start
InsertAt(s, l, start) ==
    SubSeq(s, 1, l - 1) \o <<s[start]>> \o SubSeq(s, l, start - 1)
        \o SubSeq(s, start + 1, Len(s))

RECURSIVE BinarySort(_, _)
\* binary insertion of s[start], s[start+1], ... into the sorted s[1..start-1]
BinarySort(s, start) ==
    IF start > Len(s) THEN s
    ELSE BinarySort(InsertAt(s, Place(s, s[start], 1, start), start), start + 1)

\* the run s[1..k] put in ascending order, then the rest inserted
SortRun(s, descending, k) ==
    BinarySort(IF descending
                 THEN Reverse(SubSeq(s, 1, k)) \o SubSeq(s, k + 1, Len(s))
                 ELSE s,
               k + 1)

\* the stable ascending sort of a short list by key
SortAscending(s) ==
    IF Len(s) < 2 THEN s
    ELSE SortRun(s, KeyLess(s[2], s[1]), RunEnd(s, 2, KeyLess(s[2], s[1])))

\* similarities.sort(key=lambda x: x[0], reverse=True): the list is reversed,
\* sorted ascending and reversed again
SortDescending_unstable(similarities) == Reverse(SortAscending(similarities))

SortDescending_ascending(similarities) == SortAscending(similarities)

SortDescending(similarities) == Reverse(SortAscending(Reverse(similarities)))

\* similarities[:top_k]
Slice_all(similarities, top_k) == similarities

Slice(similarities, top_k) ==
    IF top_k >= 0
      THEN SubSeq(similarities, 1, IF top_k < Len(similarities)
                                     THEN top_k ELSE Len(similarities))
      ELSE SubSeq(similarities, 1, Len(similarities) + top_k)

\* the embedding providers: a query is a text and the vectors the two models
\* encode it to
compute_text_embedding(query) == query.t

compute_image_embedding(query) == query.i

\* lines 82-86: the ranking cut to top_k, and the documents it names
TopDocuments(documents, ranked) ==
    [ranked |-> ranked,
     docs |-> [i \in 1..Len(ranked) |-> documents[ranked[i].idx]]]

\* search_documents(query, documents, top_k, image_weight=1.5)
search_documents(query, documents, top_k) ==
    TopDocuments(documents,
                 Slice(SortDescending(Similarities(compute_text_embedding(query),
                                                   compute_image_embedding(query),
                                                   documents, 1)),
                       top_k))

\* the inputs of the search
MaxSearchDocs == 2
MaxTopK == 3

\* the embedding lists of a document: none, one, or two different vectors
EmbLists(V) ==
    {<<>>} \cup {<<v>> : v \in V} \cup {x \in V \X V : x[1] # x[2]}

\* what the text model and the image model produce for documents
TextVecs == {<<1, 0>>, <<0, 1>>}
ImageVecs == {<<1, 0>>, <<1, 1>>}

\* and for queries
QueryTextVecs == {<<1, 0>>, <<0, 1>>, <<-1, 1>>}
QueryImageVecs == {<<1, 0>>, <<0, 1>>}

\* the empty query: the models encode the empty text as any other text, to
\* one vector each
EmptyQuery == [text |-> "", t |-> <<0, 1>>, i |-> <<1, 0>>]

\* the queries: the empty one, and texts that the models encode to TV and IV
Queries(TV, IV) == {EmptyQuery} \cup [text : {"q"}, t : TV, i : IV]

\* document lists of up to MaxSearchDocs documents whose text embeddings are
\* lists over TV and whose image embeddings are at most one vector of IV
SearchDocLists(TV, IV) ==
    UNION {[1..n -> [text_embeddings : EmbLists(TV),
                     image_embeddings : {<<>>} \cup {<<v>> : v \in IV}]]
              : n \in 0..MaxSearchDocs}

InitSearch ==
    /\ files = [d \in Dirs |-> {}]
    /\ cache = [d \in Dirs |-> NoCache]
    /\ readonly = {}
    /\ last = NoCall
    /\ nenv = 0
    /\ app = NoApp
    /\ input \in {InputDocs(sh) : sh \in SearchDocLists(TextVecs, ImageVecs)}

\* the state after search_documents returned r; a search changes nothing a
\* later search reads, so a behaviour makes one search of its document list
Searched(query, top_k, r) ==
    /\ last.op = "none"
    /\ last' = [NoCall EXCEPT !.op = "search", !.query = query, !.top_k = top_k,
                               !.docs = r.docs, !.ranked = r.ranked]
    /\ UNCHANGED <<files, cache, readonly, nenv, input, app>>

\* one call search_documents(query, input, top_k)
Search(query, top_k) ==
    Searched(query, top_k, search_documents(query, input, top_k))

NextSearch ==
    \E query \in Queries(QueryTextVecs, QueryImageVecs), top_k \in 0..MaxTopK :
        Search(query, top_k)

\* searches of a fixed document list whose embeddings are what the models
\* produce
SpecSearch == InitSearch /\ [][NextSearch]_vars

\* document lists in which an embedding may be the zero vector, as a cache
\* file can hold
InitSearchZero ==
    /\ files = [d \in Dirs |-> {}]
    /\ cache = [d \in Dirs |-> NoCache]
    /\ readonly = {}
    /\ last = NoCall
    /\ nenv = 0
    /\ app = NoApp
    /\ input \in {InputDocs(sh) :
                     sh \in SearchDocLists(TextVecs \cup {ZeroVec}, ImageVecs \cup {ZeroVec})}

NextSearchZero ==
    \E query \in Queries(QueryTextVecs \cup {ZeroVec}, QueryImageVecs \cup {ZeroVec}),
       top_k \in 0..MaxTopK :
        Search(query, top_k)

SpecSearchZero == InitSearchZero /\ [][NextSearchZero]_vars

\* ------------------------------------------------- the hosting application
\* backend.py: the global documents, the build_index threads that set_path
\* starts and the search requests being served.  A thread is at the call of
\* line 65 ("get_index"), before the assignment of line 66 ("assign"), before
\* line 67 ("agent"), or over ("done", or "failed" when the build raised).
MaxBuilds == 2

\* VITE_DEMO_MODE is 'true' unless the environment says otherwise
DEMO_MODE == TRUE

\* get_cached_index_only(path): the documents of the tree below path, or an
\* exception.  The caches the build may read or write hold no list that the
\* application publishes; they are left aside here.
get_cached_index_only(path) == get_index(cache, path, FALSE, NoThreshold)

\* set_agent_documents(results): the agent's tool keeps the reference; the
\* list is not changed
set_agent_documents(a, results) == a

\* POST /api/set-path: a thread running build_index(path) is started; nothing
\* is looked up about the threads that already run
set_path(path) ==
    /\ DEMO_MODE
    /\ Len(app.threads) < MaxBuilds
    /\ app' = [app EXCEPT !.threads =
                   Append(@, [path |-> path, pc |-> "get_index", results |-> <<>>])]
    /\ last' = [NoCall EXCEPT !.op = "set_path", !.root = path]
    /\ UNCHANGED <<files, cache, readonly, nenv, input>>

\* the global documents while a build computes its list: results is a local
\* of build_index, the global is not touched
WhileIndexing_published(documents, results) == results

WhileIndexing(documents, results) == documents

\* the thread t one document further in its build whose complete list is
\* full.docs, or at the end of the call
IndexStepTo(t, full) ==
    IF full.raised
      THEN [app EXCEPT !.threads[t].pc = "failed"]
    ELSE IF Len(app.threads[t].results) < Len(full.docs)
      THEN [app EXCEPT !.threads[t].results =
                           Append(@, full.docs[Len(app.threads[t].results) + 1]),
                       !.documents =
                           WhileIndexing(@, Append(app.threads[t].results,
                                                   full.docs[Len(app.threads[t].results) + 1]))]
    ELSE [app EXCEPT !.threads[t].pc = "assign"]

\* line 65: results = get_cached_index_only(path), one document at a time
IndexStep(t) ==
    /\ app.threads[t].pc = "get_index"
    /\ app' = IndexStepTo(t, get_cached_index_only(app.threads[t].path))
    /\ last' = [NoCall EXCEPT !.op = "index"]
    /\ UNCHANGED <<files, cache, readonly, nenv, input>>

\* line 66: documents = results
Assign(t) ==
    /\ app.threads[t].pc = "assign"
    /\ app' = [app EXCEPT !.documents = app.threads[t].results,
                          !.threads[t].pc = "agent"]
    /\ last' = [NoCall EXCEPT !.op = "assign"]
    /\ UNCHANGED <<files, cache, readonly, nenv, input>>

\* line 67: set_agent_documents(results); the thread ends
SetAgent(t) ==
    /\ app.threads[t].pc = "agent"
    /\ app' = set_agent_documents([app EXCEPT !.threads[t].pc = "done"],
                                  app.threads[t].results)
    /\ last' = [NoCall EXCEPT !.op = "agent"]
    /\ UNCHANGED <<files, cache, readonly, nenv, input>>

\* POST /api/search with a query (one request is followed): line 102 reads
\* the global documents; the request is over when the list is empty
SearchCheck ==
    /\ app.requests = <<>>
    /\ app' = [app EXCEPT !.requests =
                   Append(@, [pc |-> IF app.documents = <<>> THEN "done" ELSE "rank",
                              checked |-> app.documents,
                              ranked |-> <<>>])]
    /\ last' = [NoCall EXCEPT !.op = "check"]
    /\ UNCHANGED <<files, cache, readonly, nenv, input>>

\* line 106 reads the global documents again and ranks that list
SearchRank(r) ==
    /\ app.requests[r].pc = "rank"
    /\ app' = [app EXCEPT !.requests[r].pc = "done",
                          !.requests[r].ranked = app.documents]
    /\ last' = [NoCall EXCEPT !.op = "rank"]
    /\ UNCHANGED <<files, cache, readonly, nenv, input>>

NextApp ==
    \/ \E path \in Roots : set_path(path)
    \/ \E t \in 1..MaxBuilds : t <= Len(app.threads) /\ IndexStep(t)
    \/ \E t \in 1..MaxBuilds : t <= Len(app.threads) /\ Assign(t)
    \/ \E t \in 1..MaxBuilds : t <= Len(app.threads) /\ SetAgent(t)
    \/ SearchCheck
    \/ \E r \in 1..Len(app.requests) : SearchRank(r)

\* the files of the trees the application is run on: text files, and PDF
\* files, on which a build fails
AppNames == {n \in NameIds : LastDotPart(FileNames[n]) \in {<<"t", "x", "t">>, <<"p", "d", "f">>}}

\* A tree of at most MaxFiles files, all of them in the directories that
\* set_path is called with; the application has just started.
InitApp ==
    /\ files \in {f \in [Dirs -> SUBSET AppNames] :
                      /\ NumFiles(f) <= MaxFiles
                      /\ \A d \in Dirs \ Roots : f[d] = {}}
    /\ cache = [d \in Dirs |-> NoCache]
    /\ readonly = {}
    /\ last = NoCall
    /\ nenv = 0
    /\ app = NoApp
    /\ input = <<>>

\* the application serving requests on a fixed tree
SpecApp == InitApp /\ [][NextApp]_vars

\* ------------------------------------------------------ the directory walk
\* extract_file_paths.  A directory is a directory of the tree or the
\* .recollect directory in one; a listed entry has a name, tells whether it is
\* a directory, and which one.
RecollectName == <<".", "r", "e", "c", "o", "l", "l", "e", "c", "t">>

IndexJson == <<"i", "n", "d", "e", "x", ".", "j", "s", "o", "n">>

\* doc_{i}_tembeddings.npz / doc_{i}_iembeddings.npz, shortened
BundleName(b) ==
    <<"d", IF b[1] = 0 THEN "0" ELSE IF b[1] = 1 THEN "1" ELSE IF b[1] = 2 THEN "2" ELSE "n",
      b[2], ".", "n", "p", "z">>

TreeDir(d) == [dir |-> d, incache |-> FALSE]

CacheDir(d) == [dir |-> d, incache |-> TRUE]

FileEntry(name, h) == [name |-> name, isdir |-> FALSE, to |-> h]

DirEntry(name, h) == [name |-> name, isdir |-> TRUE, to |-> h]

\* os.listdir(h) on the cache store c, with os.path.isdir of each entry
ListDir(c, h) ==
    IF h.incache
      THEN <<FileEntry(IndexJson, h)>>
           \o [i \in 1..Cardinality(DOMAIN c[h.dir].bundles) |->
                  FileEntry(BundleName(SetToSeq(DOMAIN c[h.dir].bundles)[i]), h)]
      ELSE (IF c[h.dir].exists THEN <<DirEntry(RecollectName, CacheDir(h.dir))>> ELSE <<>>)
           \o [i \in 1..Cardinality(files[h.dir]) |->
                  FileEntry(AllNames[SetToSeq(files[h.dir])[i]], h)]
           \o [i \in 1..Cardinality(SubDirsOf(h.dir)) |->
                  DirEntry(DirName(SetToSeq(SubDirsOf(h.dir))[i]),
                           TreeDir(SetToSeq(SubDirsOf(h.dir))[i]))]

\* line 95: '.' in filename and filename.split('.')[-1].lower() in types
HasType_case_sensitive(filename, types) ==
    HasDot(filename) /\ LastDotPart(filename) \in types

HasType(filename, types) ==
    HasDot(filename) /\ LowerStr(LastDotPart(filename)) \in types

\* os.path.join(dir_path, filename)
JoinPath(h, filename) == [dir |-> h.dir, incache |-> h.incache, name |-> filename]

RECURSIVE extract_file_paths(_, _, _)
RECURSIVE ExtractEntries(_, _, _, _)

\* the loop of lines 90-100 over the entries of h that are left
ExtractEntries(c, h, entries, types) ==
    IF entries = <<>> THEN <<>>
    ELSE IF Head(entries).name = RecollectName
      THEN ExtractEntries(c, h, Tail(entries), types)
    ELSE IF HasType(Head(entries).name, types) /\ ~Head(entries).isdir
      THEN <<JoinPath(h, Head(entries).name)>>
           \o ExtractEntries(c, h, Tail(entries), types)
    ELSE IF Head(entries).isdir
      THEN extract_file_paths(c, Head(entries).to, types)
           \o ExtractEntries(c, h, Tail(entries), types)
    ELSE ExtractEntries(c, h, Tail(entries), types)

\* extract_file_paths(dir_path, types) on the cache store c
extract_file_paths(c, h, types) == ExtractEntries(c, h, ListDir(c, h), types)

\* the tuples of types the walk is called with
TypeSets ==
    { AllowTypes,
      { <<"t", "x", "t">>, <<"g">> },
      { <<"t", "x", "t">>, <<"j", "s", "o", "n">>, <<"n", "p", "z">> } }

\* one call extract_file_paths(d, types)
ExtractFilePaths(d, types) ==
    /\ last' = [NoCall EXCEPT !.op = "extract", !.root = d, !.query = types,
                               !.docs = extract_file_paths(cache, TreeDir(d), types)]
    /\ UNCHANGED <<files, cache, readonly, nenv, input, app>>

\* the names in the trees that are walked: a.txt, n.md, E.TXT and .h.txt
WalkNameIds == {n \in AllNameIds : AllNames[n][Len(AllNames[n])] \in {"t", "T", "d"}}

\* the tree that holds a file at each of the places
FilesAt(places) == [d \in Dirs |-> {n \in WalkNameIds : <<d, n>> \in Range(places)}]

\* A tree of at most MaxFiles files, without caches.
InitWalk ==
    /\ files \in {FilesAt(places) :
                      places \in UNION {[1..k -> Dirs \X WalkNameIds] : k \in 0..MaxFiles}}
    /\ cache = [d \in Dirs |-> NoCache]
    /\ readonly = {}
    /\ last = NoCall
    /\ nenv = 0
    /\ app = NoApp
    /\ input = <<>>

NextWalk ==
    \/ \E d \in Roots, use_cache \in BOOLEAN, t \in Thresholds : GetIndex(d, use_cache, t)
    \/ \E d \in Roots, types \in TypeSets : ExtractFilePaths(d, types)

\* builds and walks of a fixed tree
SpecWalk == InitWalk /\ [][NextWalk]_vars

\* ------------------------------------------------------------- properties
\* the result of a call reduced to what a caller observes of the document set
Outcome(r) == [raised |-> r.raised, paths |-> PathSet(r.docs)]

\* a fresh walk of d that neither reads nor writes a cache
FreshBuild(d) == get_index(cache, d, FALSE, NoThreshold)

\* the paths a manifest lists itself
ListedPaths(c, d) == {c[d].documents[i].path : i \in 1..Len(c[d].documents)}

RECURSIVE ReachableManifests(_, _)
\* the cache directories reachable from the manifest of d through child
\* references, d included
ReachableManifests(c, d) ==
    {d} \cup UNION {ReachableManifests(c, c[d].children[i]) :
                        i \in 1..Len(c[d].children)}

\* the paths of a manifest tree
ResolvedPaths(c, d) == UNION {ListedPaths(c, m) : m \in ReachableManifests(c, d)}

\* C3: started from the same snapshot, get_index returns the same set of
\* document paths (or fails alike) for every subcache_threshold and for both
\* values of use_cache.
C3_SameSetForEveryThresholdAndCacheUse ==
    \A d \in Roots, use_cache \in BOOLEAN, t \in Thresholds :
        Outcome(get_index(cache, d, use_cache, t)) = Outcome(FreshBuild(d))

\* a snapshot that holds a root manifest referring to a nested one, read by a
\* call that computed nothing
C3_Witness ==
    /\ last.op = "get_index"
    /\ last.use_cache
    /\ last.ncomputed = 0
    /\ Len(last.docs) >= 2
    /\ cache[last.root].exists
    /\ Len(cache[last.root].children) > 0

\* first is what a cached call on d returned: a second cached call, made on
\* the cache store the first one left behind, has the same outcome
SameOnSecondCall(d, t2, first) ==
    ~first.raised => Outcome(get_index(first.cache, d, TRUE, t2)) = Outcome(first)

\* C4: two calls in a row with use_cache=true return the same set of document
\* paths, whatever the two thresholds are.
C4_SecondCachedCallReturnsSameSet ==
    \A d \in Roots, t1 \in Thresholds, t2 \in Thresholds :
        SameOnSecondCall(d, t2, get_index(cache, d, TRUE, t1))

\* a call answered from manifests that an earlier call wrote, one of them nested
C4_Witness ==
    /\ last.op = "get_index"
    /\ last.use_cache
    /\ last.ncomputed = 0
    /\ Len(last.docs) >= 1
    /\ \E d \in Dirs : d # last.root /\ IsUnder(d, last.root) /\ cache[d].exists

\* C6: every manifest a build wrote covers exactly what a fresh uncached
\* build of its directory returns: its own paths plus the paths its child
\* references resolve to.
C6_ManifestCoversItsDirectory ==
    \A d \in Dirs :
        cache[d].exists =>
            Outcome(FreshBuild(d)) = [raised |-> FALSE, paths |-> ResolvedPaths(cache, d)]

\* a manifest that lists documents of its own and refers to a child manifest
C6_Witness ==
    \E d \in Dirs :
        /\ cache[d].exists
        /\ Len(cache[d].documents) > 0
        /\ Len(cache[d].children) > 0
        /\ last.op = "get_index"

\* C7: no path is listed in two manifests reachable from the same manifest,
\* and the list get_index returns holds no document twice.
C7_NoDocumentOwnedTwice ==
    /\ \A d \in Dirs :
          cache[d].exists =>
              /\ \A m1, m2 \in ReachableManifests(cache, d) :
                    m1 # m2 => ListedPaths(cache, m1) \cap ListedPaths(cache, m2) = {}
              /\ \A m \in ReachableManifests(cache, d) :
                    NoDuplicates([i \in 1..Len(cache[m].documents) |->
                                     cache[m].documents[i].path])
    /\ NoDuplicates([i \in 1..Len(last.docs) |-> last.docs[i].path])

\* a returned list of two documents, one owned by the root manifest and one by
\* a nested manifest
C7_Witness ==
    /\ last.op = "get_index"
    /\ Len(last.docs) >= 2
    /\ cache[last.root].exists
    /\ Len(cache[last.root].documents) > 0
    /\ Len(cache[last.root].children) > 0

\* the directories a walk from d visits: d and, recursively, the
\* subdirectories whose name does not start with a dot
VisibleDirs(d) ==
    {s \in Dirs : IsUnder(s, d)
                  /\ \A h \in Dirs : (IsUnder(s, h) /\ IsUnder(h, d) /\ h # d)
                                         => ~StartsWith(DirName(h), <<".">>)}

\* the matching files below d whose chunks can be extracted
ExtractablePaths(d) ==
    {p \in Paths : /\ p.dir \in VisibleDirs(d)
                   /\ p.name \in files[p.dir]
                   /\ MatchesAllowTypes(PathStr(p))
                   /\ ~extract_chunks(p).raised}

\* C1: with an unreadable manifest at the call root, get_index with
\* use_cache=true rebuilds and returns what use_cache=false returns.
C1_CorruptRootManifestIsRebuilt ==
    \A d \in Roots, t \in Thresholds :
        (cache[d].exists /\ ~cache[d].readable)
            => Outcome(get_index(cache, d, TRUE, t)) = Outcome(get_index(cache, d, FALSE, t))

\* r holds every document that fresh found below s (when fresh did not fail)
HoldsSubtree(s, fresh, r) ==
    ~fresh.raised
        => /\ ~r.raised
           /\ {p \in PathSet(fresh.docs) : IsUnder(p.dir, s)} \subseteq PathSet(r.docs)

\* C2: with an unreadable manifest at a directory s below the call root,
\* get_index with use_cache=true still returns every document of s's subtree.
C2_CorruptNestedManifestIsRebuilt ==
    \A d \in Roots, t \in Thresholds, s \in Dirs :
        (/\ s # d
         /\ IsUnder(s, d)
         /\ cache[s].exists
         /\ ~cache[s].readable)
            => HoldsSubtree(s, FreshBuild(d), get_index(cache, d, TRUE, t))

\* C8: while the manifest of d loads to a non-empty list, adding or removing
\* files leaves what it loads to unchanged, and a call get_index(d,
\* use_cache=true) returns exactly that list, computes no embedding and writes
\* nothing.
C8_NoAutomaticInvalidation ==
    [][\A d \in Roots :
          (cache[d].exists /\ Len(_load_cached_index(cache, d)) > 0)
              => /\ (last'.op \in {"add", "remove"})
                        => _load_cached_index(cache', d) = _load_cached_index(cache, d)
                 /\ (last'.op = "get_index" /\ last'.root = d /\ last'.use_cache)
                        => /\ last'.docs = _load_cached_index(cache, d)
                           /\ ~last'.raised
                           /\ last'.ncomputed = 0
                           /\ cache' = cache]_vars

\* a cached call made after the files changed: it returns a set that differs
\* from what a fresh walk finds
C8_Witness ==
    /\ last.op = "get_index"
    /\ last.use_cache
    /\ nenv > 0
    /\ Len(last.docs) > 0
    /\ last.ncomputed = 0
    /\ PathSet(last.docs) # Outcome(FreshBuild(last.root)).paths

\* C9: get_index returns normally although a matching file is of an
\* unsupported format, and the result holds every other matching document.
C9_UnsupportedFormatIsSkipped ==
    last.op = "get_index"
        => /\ ~last.raised
           /\ ExtractablePaths(last.root) \subseteq PathSet(last.docs)

\* the last call returned what the fresh walk fresh finds, unless that walk
\* itself fails on an unsupported file
CompleteUnlessUnsupported(fresh) ==
    ~fresh.raised => (~last.raised /\ PathSet(last.docs) = PathSet(fresh.docs))

\* C10: get_index returns the complete document list although a cache cannot
\* be written.
C10_WriteFailureIsNotFatal ==
    last.op = "get_index" => CompleteUnlessUnsupported(FreshBuild(last.root))

\* C5: loading a cache just written yields the documents its child references
\* resolve to, followed by the saved documents: same paths, same order, equal
\* text and image vector lists.
C5_LoadAfterSaveRoundTrips ==
    last.op = "roundtrip"
        => /\ ~last.raised
           /\ last.docs = last.refdocs \o last.saved

\* a round trip through a child reference of a list that holds a document
\* without any embedding and a document with embeddings
C5_Witness ==
    /\ last.op = "roundtrip"
    /\ Len(last.refdocs) > 0
    /\ \E i \in 1..Len(last.saved) :
          /\ last.saved[i].text_embeddings = <<>>
          /\ last.saved[i].image_embeddings = <<>>
    /\ \E i \in 1..Len(last.saved) :
          /\ Len(last.saved[i].text_embeddings) > 1
          /\ Len(last.saved[i].image_embeddings) > 0
    /\ Len(last.docs) = Len(last.refdocs) + Len(last.saved)

\* C11: after a call get_index(root, use_cache=true) that returned at least
\* one document, the root has a readable manifest that resolves to the
\* returned set, so that the next cached call is answered from it alone.
C11_RootAlwaysGetsManifest ==
    (/\ last.op = "get_index"
     /\ last.use_cache
     /\ ~last.raised
     /\ Len(last.docs) > 0)
        => /\ cache[last.root].exists
           /\ cache[last.root].readable
           /\ ResolvedPaths(cache, last.root) = PathSet(last.docs)

\* the matching files of a directory
MatchingFiles(d) == {n \in files[d] : MatchesAllowTypes(AllNames[n])}

RECURSIVE AccumulatedAt(_, _)
RECURSIVE HandedUp(_, _)

\* the uncached documents the subdirectories subs hand up on a tree without
\* caches: those of a subdirectory that wrote no manifest; hidden ones are
\* not visited
HandedUp(subs, t) ==
    IF subs = <<>> THEN 0
    ELSE IF StartsWith(DirName(Head(subs)), <<".">>) THEN HandedUp(Tail(subs), t)
    ELSE (IF t # NoThreshold /\ AccumulatedAt(Head(subs), t) > t
            THEN 0
            ELSE AccumulatedAt(Head(subs), t))
         + HandedUp(Tail(subs), t)

\* the uncached documents accumulated at d: its own matching files plus what
\* its subdirectories hand up
AccumulatedAt(d, t) ==
    Cardinality(MatchingFiles(d)) + HandedUp(SetToSeq(SubDirsOf(d)), t)

\* the cache store c2 a build of d left behind on a tree that had no cache
ThresholdRule(d, use_cache, t, c2) ==
    /\ \A s \in Dirs :
          (s # d \/ ~use_cache)
              => (c2[s].exists <=> /\ s \in VisibleDirs(d)
                                   /\ t # NoThreshold
                                   /\ AccumulatedAt(s, t) > t)
    /\ \A s \in VisibleDirs(d) :
          (t # NoThreshold /\ Cardinality(MatchingFiles(s)) > t) => c2[s].exists
    /\ (t = NoThreshold /\ use_cache) => \A s \in Dirs : c2[s].exists => s = d

\* C12: a build on a tree without caches writes a manifest at a directory in
\* the recursive step exactly when subcache_threshold is set and the uncached
\* documents accumulated there are strictly more than it; a directory with
\* more matching files than the threshold gets a cache, and without a
\* threshold the call root is the only place a cache can exist.
C12_ManifestWrittenIffAboveThreshold ==
    [][\A d \in Roots, use_cache \in BOOLEAN, t \in Thresholds :
          (/\ \A s \in Dirs : ~cache[s].exists
           /\ GetIndex(d, use_cache, t)
           /\ ~last'.raised)
              => ThresholdRule(d, use_cache, t, cache')]_vars

\* an uncached build after which a directory holding one file has no cache
\* while its parent, with one more file, has one of two documents: the count
\* equal to the threshold wrote nothing, the count above it did
C12_Witness ==
    /\ last.op = "get_index"
    /\ ~last.use_cache
    /\ ~last.raised
    /\ \E s \in Dirs :
          /\ s # last.root
          /\ Parent(s) # last.root
          /\ Cardinality(MatchingFiles(s)) = 1
          /\ ~cache[s].exists
          /\ cache[Parent(s)].exists
          /\ Len(cache[Parent(s)].documents) = 2
          /\ ~cache[last.root].exists

\* the positions of the documents that have at least one embedding
Scoreable(documents) ==
    {i \in 1..Len(documents) : \/ Len(documents[i].text_embeddings) > 0
                               \/ Len(documents[i].image_embeddings) > 0}

\* the positions of the input list the last search returned
ReturnedIdx == {last.ranked[i].idx : i \in 1..Len(last.ranked)}

\* C13: search_documents returns exactly min(top_k, number of documents with
\* an embedding) documents, each one a document of the input list that has an
\* embedding, none of them twice.
C13_ReturnsMinTopKScoreable ==
    last.op = "search"
        => /\ Len(last.docs) = IF last.top_k < Cardinality(Scoreable(input))
                                 THEN last.top_k
                                 ELSE Cardinality(Scoreable(input))
           /\ Len(last.ranked) = Len(last.docs)
           /\ \A i \in 1..Len(last.ranked) :
                 /\ last.ranked[i].idx \in Scoreable(input)
                 /\ last.docs[i] = input[last.ranked[i].idx]
           /\ NoDuplicates([i \in 1..Len(last.ranked) |-> last.ranked[i].idx])

\* a search that asked for more documents than can be scored, on a list that
\* holds a document without any embedding
C13_Witness ==
    /\ last.op = "search"
    /\ Len(last.docs) >= 1
    /\ last.top_k > Len(last.docs)
    /\ Scoreable(input) # 1..Len(input)

\* x >= y on floats
GreaterEq(x, y) == ~x.nan /\ ~y.nan /\ ~Less(x, y)

\* the score of a document for a query: the greatest of the cosine
\* similarities of the query text vector to its text embeddings and of
\* image_weight times those of the query image vector to its image embeddings
Score(query, doc) ==
    CHOOSE x \in Range(doc_similarities(compute_text_embedding(query),
                                        compute_image_embedding(query), doc)) :
        \A y \in Range(doc_similarities(compute_text_embedding(query),
                                        compute_image_embedding(query), doc)) :
            GreaterEq(x, y)

\* the score of the document at position i of the input list
ScoreAt(i) == Score(last.query, input[i])

\* C14: along the list search_documents returns the scores never increase.
C14_ScoresNeverIncrease ==
    last.op = "search"
        => \A i \in 1..(Len(last.ranked) - 1) :
              GreaterEq(ScoreAt(last.ranked[i].idx), ScoreAt(last.ranked[i + 1].idx))

\* a search that returned the second document of the list before the first,
\* the scores being different
C14_Witness ==
    /\ last.op = "search"
    /\ Len(last.ranked) >= 2
    /\ last.ranked[1].idx > last.ranked[2].idx
    /\ Less(ScoreAt(last.ranked[2].idx), ScoreAt(last.ranked[1].idx))

\* C15: every returned document scores at least as high as every document
\* with an embedding that is not returned; a document whose score is above
\* all others is the first one returned.
C15_ReturnsTheBest ==
    last.op = "search"
        => /\ \A i \in ReturnedIdx, j \in Scoreable(input) \ ReturnedIdx :
                 GreaterEq(ScoreAt(i), ScoreAt(j))
           /\ \A i \in Scoreable(input) :
                 (/\ last.top_k >= 1
                  /\ \A j \in Scoreable(input) \ {i} : Less(ScoreAt(j), ScoreAt(i)))
                     => last.ranked[1].idx = i

\* a search with top_k=1 won by an image-only document that comes later in
\* the list, thanks to the weight: without it the other document scores higher
C15_Witness ==
    /\ last.op = "search"
    /\ last.top_k = 1
    /\ Len(last.ranked) = 1
    /\ input[last.ranked[1].idx].text_embeddings = <<>>
    /\ \E j \in Scoreable(input) :
          /\ j < last.ranked[1].idx
          /\ Less(ScoreAt(j), ScoreAt(last.ranked[1].idx))
          /\ Less(compute_similarity(compute_image_embedding(last.query),
                                     input[last.ranked[1].idx].image_embeddings[1]),
                  ScoreAt(j))

\* C16: documents of equal score are returned in input order, and when only
\* some of them fit into top_k the earlier ones are returned.
C16_TiesKeepInputOrder ==
    last.op = "search"
        => /\ \A i, j \in 1..Len(last.ranked) :
                 (i < j /\ SameValue(ScoreAt(last.ranked[i].idx),
                                     ScoreAt(last.ranked[j].idx)))
                     => last.ranked[i].idx < last.ranked[j].idx
           /\ \A i \in ReturnedIdx, j \in Scoreable(input) \ ReturnedIdx :
                 SameValue(ScoreAt(i), ScoreAt(j)) => i < j

\* two documents of equal score of which only one fits: the first is returned
C16_Witness ==
    /\ last.op = "search"
    /\ last.top_k = 1
    /\ Cardinality(Scoreable(input)) >= 2
    /\ \E j \in Scoreable(input) \ ReturnedIdx :
          /\ SameValue(ScoreAt(j), ScoreAt(last.ranked[1].idx))
          /\ input[j] # input[last.ranked[1].idx]

\* a document all of whose embeddings are zero vectors
AllZero(doc) ==
    /\ Len(doc.text_embeddings) + Len(doc.image_embeddings) > 0
    /\ \A e \in Range(doc.text_embeddings) \cup Range(doc.image_embeddings) : e = ZeroVec

\* the similarity 0
ZeroSimilarity == [nan |-> FALSE, num |-> 0, den |-> 1]

\* C17: compute_similarity is 0 when an argument is the zero vector; every
\* score of a ranking is a number, and a document of zero vectors comes after
\* every document of positive similarity.
C17_ZeroVectorScoresZero ==
    last.op = "search"
        => /\ \A i \in 1..Len(input) :
                 \A e \in Range(input[i].text_embeddings) :
                     (e = ZeroVec \/ compute_text_embedding(last.query) = ZeroVec)
                         => SameValue(compute_similarity(compute_text_embedding(last.query), e),
                                      ZeroSimilarity)
           /\ \A i \in 1..Len(last.ranked) : ~last.ranked[i].score.nan
           /\ \A i, j \in 1..Len(last.ranked) :
                 (/\ AllZero(input[last.ranked[i].idx])
                  /\ Less(ZeroSimilarity, last.ranked[j].score))
                     => j < i

\* C18: a search with an empty query or an empty document list returns the
\* empty list.
C18_EmptyQueryOrListYieldsNothing ==
    (last.op = "search" /\ (last.query.text = "" \/ input = <<>>))
        => last.docs = <<>>

\* the threads that are executing build_index
Running == {t \in 1..Len(app.threads) : app.threads[t].pc \in {"get_index", "assign", "agent"}}

\* a list is the complete document set of a build that has returned
CompleteSet(docs) ==
    \E t \in 1..Len(app.threads) :
        /\ app.threads[t].pc \in {"agent", "done"}
        /\ docs = app.threads[t].results
        /\ docs = get_cached_index_only(app.threads[t].path).docs

\* C19: the global documents and every list a search request read from it is
\* the empty list the application starts with or the complete list of a build
\* that has returned and passed its one assignment, never a list in the making.
C19_ReadersSeeCompleteSets ==
    /\ app.documents = <<>> \/ CompleteSet(app.documents)
    /\ \A r \in 1..Len(app.requests) :
          /\ app.requests[r].checked = <<>> \/ CompleteSet(app.requests[r].checked)
          /\ app.requests[r].ranked = <<>> \/ CompleteSet(app.requests[r].ranked)

\* a search request that read the list of one build at line 102 and the list
\* of a later build at line 106
C19_Witness ==
    \E r \in 1..Len(app.requests) :
        /\ app.requests[r].pc = "done"
        /\ app.requests[r].checked # <<>>
        /\ app.requests[r].ranked # <<>>
        /\ app.requests[r].ranked # app.requests[r].checked
        /\ Len(app.requests[r].ranked) >= 2

\* C20: no two build_index threads execute for the same directory at the
\* same time.
C20_OneBuildPerDirectory ==
    \A t1, t2 \in Running :
        t1 # t2 => app.threads[t1].path # app.threads[t2].path

\* the directories strictly below d that lie in or under a hidden directory
HiddenBelow(d) ==
    {s \in Dirs : \E h \in Dirs : /\ h # d
                                  /\ IsUnder(h, d)
                                  /\ IsUnder(s, h)
                                  /\ StartsWith(DirName(h), <<".">>)}

\* C21: neither extract_file_paths nor get_index returns a file that lies in
\* a hidden directory below the call root or in a .recollect directory.
C21_HiddenDirectoriesAreSkipped ==
    /\ last.op = "extract"
          => \A i \in 1..Len(last.docs) :
                /\ last.docs[i].dir \notin HiddenBelow(last.root)
                /\ ~last.docs[i].incache
    /\ last.op = "get_index"
          => \A i \in 1..Len(last.docs) : last.docs[i].path.dir \notin HiddenBelow(last.root)

\* the files extract_file_paths is to return from the tree below d: every
\* file in any directory whose name has a dot and a type of types
ExpectedPaths(d, types) ==
    {[dir |-> s, incache |-> FALSE, name |-> AllNames[n]] :
        <<s, n>> \in {pl \in Dirs \X AllNameIds :
                         /\ IsUnder(pl[1], d)
                         /\ pl[2] \in files[pl[1]]
                         /\ HasDot(AllNames[pl[2]])
                         /\ LowerStr(LastDotPart(AllNames[pl[2]])) \in types}}

\* C22: extract_file_paths returns, once each, the files at any depth below
\* the root, outside .recollect directories, whose lower-cased text after the
\* last dot is one of types, and nothing else; hidden directories are walked.
C22_WalkIsExhaustiveAndDuplicateFree ==
    last.op = "extract"
        => /\ Range(last.docs) = ExpectedPaths(last.root, last.query)
           /\ NoDuplicates(last.docs)

\* a walk, asked for json and npz files too, of a tree that holds a cache
\* directory with a bundle, which returned a file of a hidden directory and a
\* file whose extension is in upper case
C22_Witness ==
    /\ last.op = "extract"
    /\ <<"j", "s", "o", "n">> \in last.query
    /\ \E d \in Dirs : /\ IsUnder(d, last.root)
                       /\ cache[d].exists
                       /\ DOMAIN cache[d].bundles # {}
    /\ \E i \in 1..Len(last.docs) : last.docs[i].dir \in HiddenBelow(last.root)
    /\ \E i \in 1..Len(last.docs) : last.docs[i].name # LowerStr(last.docs[i].name)

\* the vectors _load_cached_index reads for a bundle field of a manifest
\* entry: the stored list, the empty list for null
StoredVectors(dirRec, file) ==
    IF file \in DOMAIN dirRec.bundles THEN LoadBundle(dirRec.bundles[file]) ELSE <<>>

\* entry e of a cache directory is loaded without a computation, as the
\* document of its stored vectors
ReadNotRecreated(dirRec, e) ==
    /\ ~LoadEntry(dirRec, e).computed
    /\ ~LoadEntry(dirRec, e).raised
    /\ LoadEntry(dirRec, e).doc =
           [path |-> e.path,
            text_embeddings |-> StoredVectors(dirRec, e.text_embeddings_file),
            image_embeddings |-> StoredVectors(dirRec, e.image_embeddings_file)]

\* C23: loading a manifest never computes embeddings: every entry, an entry
\* with two null bundle fields included, becomes the Document of its stored
\* vectors (empty lists for null fields), through child references too.
C23_LoadReadsNeverRecreates ==
    \A d \in Dirs :
        /\ LoadFull(cache, d).ncomputed = 0
        /\ cache[d].exists /\ cache[d].readable
              => \A i \in 1..Len(cache[d].documents) :
                    ReadNotRecreated(cache[d], cache[d].documents[i])

\* a cache was loaded, through a child reference, that holds an entry with
\* two null bundle fields and an entry with both bundles
C23_Witness ==
    /\ last.op = "roundtrip"
    /\ Len(last.refdocs) > 0
    /\ Len(last.docs) = Len(last.refdocs) + Len(last.saved)
    /\ \E i \in 1..Len(cache[last.root].documents) :
          /\ cache[last.root].documents[i].text_embeddings_file = NoFile
          /\ cache[last.root].documents[i].image_embeddings_file = NoFile
    /\ \E i \in 1..Len(cache[last.root].documents) :
          /\ cache[last.root].documents[i].text_embeddings_file # NoFile
          /\ cache[last.root].documents[i].image_embeddings_file # NoFile

\* C24: every child reference of a manifest at directory d names the cache of
\* a directory strictly below d, never d itself and never a directory above
\* it; the reference graph therefore has no cycle.
C24_ChildReferencesPointStrictlyDown ==
    \A d \in Dirs :
        cache[d].exists
            => \A i \in 1..Len(cache[d].children) :
                  /\ cache[d].children[i] # d
                  /\ IsUnder(cache[d].children[i], d)
                  /\ ~IsUnder(d, cache[d].children[i])

\* a build left a manifest that references the cache of a directory two
\* levels below it
C24_Witness ==
    /\ last.op = "get_index"
    /\ \E d \in Dirs :
          /\ cache[d].exists
          /\ \E i \in 1..Len(cache[d].children) :
                /\ cache[d].children[i] # d
                /\ Parent(cache[d].children[i]) # d
                /\ cache[cache[d].children[i]].exists

\* the tree without any .recollect directory
NoCaches == [d \in Dirs |-> NoCache]

\* r and f are the same result: the same paths, the same outcome, and as many
\* embedding computations, that is no document taken from a manifest
SameResult(r, f) ==
    /\ PathSet(r.docs) = PathSet(f.docs)
    /\ r.raised = f.raised
    /\ r.ncomputed = f.ncomputed

\* C25: get_index(use_cache=false) returns on a tree with any caches (absent,
\* valid, stale, at the root or nested) the paths it returns on the same tree
\* without caches, for every threshold, and takes no document from a manifest.
C25_UncachedBuildIgnoresCaches ==
    \A d \in Roots, t \in Thresholds :
        SameResult(get_index(cache, d, FALSE, t), get_index(NoCaches, d, FALSE, t))

\* a call without caching returned a file that the readable manifest at its
\* root, written before the file was added, does not list
C25_Witness ==
    /\ last.op = "get_index"
    /\ ~last.use_cache
    /\ cache[last.root].exists
    /\ cache[last.root].readable
    /\ Len(cache[last.root].documents) > 0
    /\ \E i \in 1..Len(last.docs) :
          last.docs[i].path \notin ResolvedPaths(cache, last.root)

\* C26: a call get_index(use_cache=false) leaves every .recollect directory
\* as it was: none is created, none is overwritten, for every threshold.
C26_UncachedBuildWritesNothing ==
    [][(last'.op = "get_index" /\ ~last'.use_cache) => cache' = cache]_vars

====
